---------------------------- MODULE Spec2Model ----------------------------
(***************************************************************************)
(* A model of lsr (src/bin/lsr.rs): the glyph and size formatters, and the *)
(* recursive directory walk as a machine with an explicit call stack.      *)
(***************************************************************************)
EXTENDS Integers, Sequences, FiniteSets, TLC

VARIABLES
    fs,        \* the root path: an entry of the (static) file system
    all,       \* cli.all
    udepth,    \* cli.depth, an i8
    pc,        \* "start" (before main), "run" (inside lsr), "exit"
    stack,     \* the active lsr calls, outermost first
    out,       \* the lines printed on standard output, in order
    errout,    \* the lines printed on standard error
    exitCode,  \* "none", "SUCCESS", "FAILURE" or "PANIC"
    calls,     \* every lsr call that has returned, in order of return
    gs,        \* one evaluation of get_symbol:   [i, length, indent, done, sym]
    bb         \* one evaluation of beautify_bytes: [bytes, done, str]

walk == <<fs, all, udepth, pc, stack, out, errout, exitCode, calls>>
vars == <<fs, all, udepth, pc, stack, out, errout, exitCode, calls, gs, bb>>

(***************************************************************************)
(* Program constants.                                                      *)
(***************************************************************************)
BYTES_IN_KB == 1024
BYTES_IN_MB == BYTES_IN_KB * 1024
BYTES_IN_GB == BYTES_IN_MB * 1024
I8_MAX == 127
I8_MIN == -128
DEFAULT_DEPTH == -1

(***************************************************************************)
(* Bounds of the model.                                                    *)
(***************************************************************************)
MaxLength == 6      \* get_symbol: sibling counts 1..MaxLength
MaxIndent == 4      \* get_symbol: indents 0..MaxIndent
Window == 20        \* beautify_bytes: byte counts within Window of a landmark
MaxUserDepth == 2   \* cli.depth ranges over the negatives below and 0..MaxUserDepth
MaxPre == 1         \* plain files before the distinguished entry of a listing
MaxPost == 1        \* plain files after it
ChainExtra == 2     \* the deep chain nests I8_MAX + ChainExtra directories
DirLen == 4096      \* the length the file system reports for a directory

(***************************************************************************)
(* get_symbol                                                              *)
(***************************************************************************)
\* The four box-drawing glyphs, written by their Unicode code points.
CLOSE_CORNER == "U+2570"   \* closing corner
FLAT         == "U+2500"   \* horizontal connector
TEE          == "U+251C"   \* T-junction
OPEN_CORNER  == "U+256D"   \* opening corner

\* get_symbol with the last position tested as i == length
get_symbol_last_off_by_one(i, length, indent) ==
    IF i = 0
    THEN IF length = 1
         THEN IF indent # 0 THEN CLOSE_CORNER ELSE FLAT
         ELSE IF indent # 0 THEN TEE ELSE OPEN_CORNER
    ELSE IF i = length
         THEN CLOSE_CORNER
         ELSE TEE

get_symbol(i, length, indent) ==
    IF i = 0
    THEN IF length = 1
         THEN IF indent # 0 THEN CLOSE_CORNER ELSE FLAT
         ELSE IF indent # 0 THEN TEE ELSE OPEN_CORNER
    ELSE IF i = length - 1
         THEN CLOSE_CORNER
         ELSE TEE

(***************************************************************************)
(* beautify_bytes.  The u64 -> f64 conversion is exact below 2^53 and the  *)
(* divisors are powers of two, so bytes / unit is the exact quotient; the  *)
(* {:.2} formatting rounds that exact value to hundredths, ties to even.   *)
(* The arithmetic below is arranged to stay within 32-bit integers.        *)
(***************************************************************************)
Digit(d) ==
    CASE d = 0 -> "0" [] d = 1 -> "1" [] d = 2 -> "2" [] d = 3 -> "3"
      [] d = 4 -> "4" [] d = 5 -> "5" [] d = 6 -> "6" [] d = 7 -> "7"
      [] d = 8 -> "8" [] d = 9 -> "9"

RECURSIVE Dec(_)
Dec(n) == IF n < 10 THEN Digit(n) ELSE Dec(n \div 10) \o Digit(n % 10)

\* round(bytes * 100 / unit) in hundredths, ties to even; unit = 1024 * v
Hundredths(bytes, unit) ==
    LET v   == unit \div 1024
        q   == bytes \div unit
        r   == bytes % unit
        a   == r \div v
        c   == r % v
        y   == (a * 100) + ((c * 100) \div v)
        fl  == y \div 1024
        rem == ((y % 1024) * v) + ((c * 100) % v)
        up  == \/ rem > (unit \div 2)
               \/ (rem = (unit \div 2) /\ (fl % 2) = 1)
    IN  (q * 100) + fl + (IF up THEN 1 ELSE 0)

Fixed2(bytes, unit) ==
    LET h == Hundredths(bytes, unit)
    IN  Dec(h \div 100) \o "." \o Digit((h % 100) \div 10) \o Digit(h % 10)

\* beautify_bytes with <= in place of < in its comparisons
beautify_bytes_inclusive(bytes) ==
    IF bytes <= BYTES_IN_KB THEN Dec(bytes) \o "B"
    ELSE IF bytes <= BYTES_IN_MB THEN Fixed2(bytes, BYTES_IN_KB) \o "KB"
    ELSE IF bytes <= BYTES_IN_GB THEN Fixed2(bytes, BYTES_IN_MB) \o "MB"
    ELSE Fixed2(bytes, BYTES_IN_GB) \o "GB"

beautify_bytes(bytes) ==
    IF bytes < BYTES_IN_KB THEN Dec(bytes) \o "B"
    ELSE IF bytes < BYTES_IN_MB THEN Fixed2(bytes, BYTES_IN_KB) \o "KB"
    ELSE IF bytes < BYTES_IN_GB THEN Fixed2(bytes, BYTES_IN_MB) \o "MB"
    ELSE Fixed2(bytes, BYTES_IN_GB) \o "GB"

(***************************************************************************)
(* The file system, as the three primitives the program uses see it.  An   *)
(* entry is what read_dir yields for one name:                             *)
(*   name    the characters of the file name                               *)
(*   utf8    whether file_name().to_str() is Some                          *)
(*   enumOk  whether the iterator item is Ok                               *)
(*   metaOk  whether path.metadata() is Ok, len its len()                  *)
(*   isDir   path.is_dir()  (false whenever metadata fails)                *)
(*   readOk  whether read_dir(path) is Ok, sub what it yields, in order    *)
(*   link    a symbolic link to the root directory (a cycle)               *)
(*   nest    when positive, read_dir yields one directory and nothing      *)
(*           else, which in turn has nest - 1 (a chain of directories,     *)
(*           written as a number so that its depth is not the depth of a   *)
(*           value)                                                        *)
(* The file system does not change while the program runs.                 *)
(***************************************************************************)
File(name, len) ==
    [name |-> name, utf8 |-> TRUE, enumOk |-> TRUE, metaOk |-> TRUE,
     isDir |-> FALSE, readOk |-> FALSE, len |-> len, sub |-> <<>>, link |-> FALSE,
     nest |-> 0]

Directory(name, sub) ==
    [name |-> name, utf8 |-> TRUE, enumOk |-> TRUE, metaOk |-> TRUE,
     isDir |-> TRUE, readOk |-> TRUE, len |-> DirLen, sub |-> sub, link |-> FALSE,
     nest |-> 0]

\* a directory whose read_dir fails (no read permission)
Unreadable(name) == [Directory(name, <<>>) EXCEPT !.readOk = FALSE]

\* a dangling symbolic link: metadata() follows it and fails
Dangling(name) == [File(name, 0) EXCEPT !.metaOk = FALSE]

\* an item the read_dir iterator yields as Err
EnumErr(name) == [File(name, 0) EXCEPT !.enumOk = FALSE]

\* a regular file whose name is not valid UTF-8
NonUtf8(name, len) == [File(name, len) EXCEPT !.utf8 = FALSE]

\* a symbolic link to the root directory
RootLink(name) == [Directory(name, <<>>) EXCEPT !.link = TRUE]

PreNames  == << <<"a">>, <<"b">>, <<"c">>, <<"e">> >>
PostNames == << <<"p">>, <<"q">>, <<"r">>, <<"s">> >>

PreFiles(n, base)  == [k \in 1..n |-> File(PreNames[k], base + k - 1)]
PostFiles(n, base) == [k \in 1..n |-> File(PostNames[k], base + k - 1)]

\* the distinguished entries a listing may hold between its plain files
Specials ==
    { <<>>,
      << File(<<".", "h">>, 7) >>,
      << Dangling(<<"l">>) >>,
      << EnumErr(<<"x">>) >>,
      << NonUtf8(<<"n">>, 9) >>,
      << Unreadable(<<"u">>) >>,
      << Directory(<<"i">>, << File(<<"z">>, BYTES_IN_KB) >>) >>,
      << Directory(<<".", "g">>, << File(<<"y">>, 11) >>) >> }

SubListings ==
    { PreFiles(p, 2 * BYTES_IN_KB) \o x \o PostFiles(q, 3) :
        p \in 0..MaxPre, x \in Specials, q \in 0..MaxPost }

RootSpecials ==
    Specials \cup { << Directory(<<"d">>, sub) >> : sub \in SubListings }

RootListings ==
    { PreFiles(p, 500) \o x \o PostFiles(q, BYTES_IN_MB) \o t :
        p \in 0..MaxPre, x \in RootSpecials, q \in 0..MaxPost,
        t \in { <<>>, << Dangling(<<"t">>) >> } }

\* root listings with a cycle: a link back to the root, directly or inside
\* a subdirectory, alone or among files and a dangling link
CyclicListings ==
    { << RootLink(<<"o">>) >>,
      << File(<<"a">>, 500), RootLink(<<"o">>), File(<<"p">>, BYTES_IN_MB) >>,
      << RootLink(<<"o">>), Dangling(<<"t">>) >>,
      << Directory(<<"d">>, << File(<<"b">>, 2 * BYTES_IN_KB), RootLink(<<"o">>) >>),
         File(<<"p">>, BYTES_IN_MB) >> }

\* a directory with n directories nested in one another below it, and a
\* file in the innermost
Chain(name, n) == [Directory(name, << File(<<"f">>, 5) >>) EXCEPT !.nest = n]

Roots ==
    { Directory(<<"r">>, l) : l \in RootListings \cup CyclicListings }
      \cup { Chain(<<"r">>, I8_MAX + ChainExtra),
             File(<<"r">>, 1), Unreadable(<<"r">>), Dangling(<<"r">>) }

UserDepths == { I8_MIN, DEFAULT_DEPTH } \cup 0..MaxUserDepth

\* what read_dir yields for a directory entry
RawListing(e) ==
    IF e.link THEN fs.sub
    ELSE IF e.nest > 0 THEN << Chain(<<"c">>, e.nest - 1) >>
    ELSE e.sub

RECURSIVE Join(_)
Join(name) == IF name = <<>> THEN "" ELSE Head(name) \o Join(Tail(name))

starts_with_dot(name) == name # <<>> /\ Head(name) = "."

(***************************************************************************)
(* lsr                                                                     *)
(***************************************************************************)
\* the filter keeping every entry, whatever cli.all is
RetainedAlways(e) == TRUE

\* the closure of the second filter (lines 76-81)
Retained(e) == (~ (e.utf8 /\ starts_with_dot(e.name))) \/ all

\* the Vec collected from read_dir: Ok items only, then the name filter
Collect(listing) ==
    SelectSeq(SelectSeq(listing, LAMBDA e : e.enumOk), LAMBDA e : Retained(e))

\* the stop test one level late
IsStopBelow(depth) == depth < -1

\* the stop test of line 67
IsStop(depth) == depth = -1

\* main's mapping of cli.depth (lines 131-134)
InitialDepth(d) == IF d < 0 THEN I8_MAX ELSE d

\* the depth and indent handed to the recursive call (line 110)
ChildDepth(depth) == depth - 1
\* the recursive call handed the caller's own indent
ChildIndentSame(indent) == indent
ChildIndent(indent) == indent + 1

EntryLine(f, e, kind) ==
    [kind   |-> kind,
     indent |-> f.indent,
     sym    |-> get_symbol(f.i, Len(f.dir), f.indent),
     name   |-> Join(e.name),
     path   |-> Append(f.path, e.name),
     bytes  |-> e.len,
     text   |-> IF kind = "file" THEN beautify_bytes(e.len)
                ELSE IF f.depth = 0 THEN "/ normal" ELSE "/ dimmed"]

\* the error line printed at the caller's own indent
ErrorLineAtOwnIndent(f, e, msg) ==
    [kind   |-> "err",
     indent |-> f.indent,
     sym    |-> CLOSE_CORNER,
     name   |-> msg,
     path   |-> Append(f.path, e.name),
     bytes  |-> 0,
     text   |-> ""]

\* the line printed when the recursive call returns Err (line 111)
ErrorLine(f, e, msg) ==
    [kind   |-> "err",
     indent |-> f.indent + 1,
     sym    |-> CLOSE_CORNER,
     name   |-> msg,
     path   |-> Append(f.path, e.name),
     bytes  |-> 0,
     text   |-> ""]

NOT_A_DIRECTORY == "is not a directory"
READ_DIR_ERROR  == "read_dir: permission denied"
METADATA_ERROR  == "metadata: no such file or directory"

\* lines 63-89 of a call lsr(path of e, depth, indent, cli): an early
\* return, or the frame with which the loop starts
Enter(e, path, depth, indent) ==
    IF ~ e.isDir THEN [tag |-> "Err", msg |-> NOT_A_DIRECTORY, at |-> "is_dir"]
    ELSE IF IsStop(depth) THEN [tag |-> "Ok", value |-> 0, at |-> "stop"]
    ELSE IF ~ e.readOk THEN [tag |-> "Err", msg |-> READ_DIR_ERROR, at |-> "read_dir"]
    ELSE [tag   |-> "Frame",
          frame |-> [path |-> path, depth |-> depth, indent |-> indent,
                     dir |-> Collect(RawListing(e)), i |-> 0,
                     total_bytes |-> 0, outStart |-> Len(out)]]

\* the record kept of a call that has returned: its arguments, its result,
\* the statement it returned at ("is_dir", "stop", "read_dir", "metadata" or
\* "end"), the loop index it had reached, and the span of standard output
\* printed while it was active
Returned(path, depth, indent, res, i, outStart, outEnd) ==
    [path |-> path, depth |-> depth, indent |-> indent, tag |-> res.tag,
     value |-> IF res.tag = "Ok" THEN res.value ELSE 0,
     msg |-> IF res.tag = "Err" THEN res.msg ELSE "",
     at |-> res.at, i |-> i, outStart |-> outStart, outEnd |-> outEnd]

Top == stack[Len(stack)]
Current == Top.dir[Top.i + 1]
InLoop == pc = "run" /\ stack # <<>> /\ Top.i < Len(Top.dir)
Advance(f) == [f EXCEPT !.i = f.i + 1]
SetTop(stk, f) == [stk EXCEPT ![Len(stk)] = f]

\* main, lines 121-136, up to the loop of the top-level call
Main ==
    /\ pc = "start"
    /\ IF ~ fs.isDir
       THEN /\ errout' = Append(errout, NOT_A_DIRECTORY)
            /\ exitCode' = "FAILURE"
            /\ pc' = "exit"
            /\ UNCHANGED <<stack, calls>>
       ELSE LET r == Enter(fs, <<>>, InitialDepth(udepth), 0)
            IN  IF r.tag = "Frame"
                THEN /\ stack' = << r.frame >>
                     /\ pc' = "run"
                     /\ UNCHANGED <<errout, exitCode, calls>>
                ELSE /\ calls' = Append(calls,
                         Returned(<<>>, InitialDepth(udepth), 0, r, 0, 0, 0))
                     /\ errout' = IF r.tag = "Err" THEN Append(errout, r.msg)
                                  ELSE errout
                     /\ exitCode' = IF r.tag = "Err" THEN "FAILURE" ELSE "SUCCESS"
                     /\ pc' = "exit"
                     /\ UNCHANGED stack
    /\ UNCHANGED <<fs, all, udepth, out, gs, bb>>

\* a return whose error the caller passes on instead of printing it
ReturnUncaught(res) ==
    LET f    == Top
        rest == SubSeq(stack, 1, Len(stack) - 1)
    IN  /\ calls' = Append(calls, Returned(f.path, f.depth, f.indent, res,
                                           f.i, f.outStart, Len(out)))
        /\ out' = out
        /\ IF rest = <<>> \/ res.tag = "Err"
           THEN /\ stack' = <<>>
                /\ pc' = "exit"
                /\ exitCode' = IF res.tag = "Ok" THEN "SUCCESS" ELSE "FAILURE"
                /\ errout' = IF res.tag = "Ok" THEN errout
                             ELSE Append(errout, res.msg)
           ELSE /\ stack' = SetTop(rest, Advance(rest[Len(rest)]))
                /\ UNCHANGED <<pc, exitCode, errout>>

\* the top call returns res to its caller: the match in main (lines
\* 136-142), or the if-let of the parent's loop (lines 110-112)
Return(res) ==
    LET f    == Top
        rest == SubSeq(stack, 1, Len(stack) - 1)
        line == IF rest # <<>> /\ res.tag = "Err"
                THEN << ErrorLine(rest[Len(rest)],
                                  rest[Len(rest)].dir[rest[Len(rest)].i + 1],
                                  res.msg) >>
                ELSE <<>>
    IN  /\ calls' = Append(calls, Returned(f.path, f.depth, f.indent, res,
                                           f.i, f.outStart, Len(out)))
        /\ out' = out \o line
        /\ IF rest = <<>>
           THEN /\ stack' = <<>>
                /\ pc' = "exit"
                /\ exitCode' = IF res.tag = "Ok" THEN "SUCCESS" ELSE "FAILURE"
                /\ errout' = IF res.tag = "Ok" THEN errout
                             ELSE Append(errout, res.msg)
           ELSE /\ stack' = SetTop(rest, Advance(rest[Len(rest)]))
                /\ UNCHANGED <<pc, exitCode, errout>>

\* a failed metadata lookup skipping the entry instead of returning
MetadataSkip ==
    /\ InLoop
    /\ ~ Current.metaOk
    /\ stack' = SetTop(stack, Advance(Top))
    /\ UNCHANGED <<fs, all, udepth, pc, out, errout, exitCode, calls, gs, bb>>

\* lines 92-97: the metadata lookup of the current entry fails
MetadataFail ==
    /\ InLoop
    /\ ~ Current.metaOk
    /\ Return([tag |-> "Err", msg |-> METADATA_ERROR, at |-> "metadata"])
    /\ UNCHANGED <<fs, all, udepth, gs, bb>>

\* line 101: to_str().unwrap() on a name that is not UTF-8 panics
NamePanic ==
    /\ InLoop
    /\ Current.metaOk
    /\ ~ Current.utf8
    /\ pc' = "exit"
    /\ exitCode' = "PANIC"
    /\ stack' = SetTop(stack, [Top EXCEPT !.total_bytes = @ + Current.len])
    /\ UNCHANGED <<fs, all, udepth, out, errout, calls, gs, bb>>

\* lines 91-107 and 113-115: one iteration of the loop for a file
VisitFile ==
    /\ InLoop
    /\ Current.metaOk
    /\ Current.utf8
    /\ ~ Current.isDir
    /\ out' = Append(out, EntryLine(Top, Current, "file"))
    /\ stack' = SetTop(stack,
                  Advance([Top EXCEPT !.total_bytes = @ + Current.len]))
    /\ UNCHANGED <<fs, all, udepth, pc, errout, exitCode, calls, gs, bb>>

\* lines 91-112: one iteration of the loop for a directory, up to the loop
\* of the recursive call or, when that call returns early, to its return
VisitDir ==
    /\ InLoop
    /\ Current.metaOk
    /\ Current.utf8
    /\ Current.isDir
    /\ LET f    == [Top EXCEPT !.total_bytes = @ + Current.len]
           line == EntryLine(Top, Current, "dir")
           r    == Enter(Current, Append(f.path, Current.name),
                         ChildDepth(f.depth), ChildIndent(f.indent))
       IN  IF r.tag = "Frame"
           THEN /\ out' = Append(out, line)
                /\ stack' = Append(SetTop(stack, f),
                                   [r.frame EXCEPT !.outStart = Len(out) + 1])
                /\ UNCHANGED calls
           ELSE /\ out' = IF r.tag = "Err"
                          THEN out \o << line, ErrorLine(f, Current, r.msg) >>
                          ELSE Append(out, line)
                /\ stack' = SetTop(stack, Advance(f))
                /\ calls' = Append(calls,
                              Returned(Append(f.path, Current.name),
                                       ChildDepth(f.depth), ChildIndent(f.indent),
                                       r, 0, Len(out) + 1, Len(out) + 1))
    /\ UNCHANGED <<fs, all, udepth, pc, errout, exitCode, gs, bb>>

\* line 118: the loop is over, the call returns Ok(total_bytes)
ReturnOk ==
    /\ pc = "run"
    /\ stack # <<>>
    /\ Top.i = Len(Top.dir)
    /\ Return([tag |-> "Ok", value |-> Top.total_bytes, at |-> "end"])
    /\ UNCHANGED <<fs, all, udepth, gs, bb>>

Idle == [i |-> 0, length |-> 1, indent |-> 0, done |-> FALSE, sym |-> ""]
IdleBytes == [bytes |-> 0, done |-> FALSE, str |-> ""]

Started ==
    /\ pc = "start"
    /\ stack = <<>>
    /\ out = <<>>
    /\ errout = <<>>
    /\ exitCode = "none"
    /\ calls = <<>>

Init ==
    /\ fs \in Roots
    /\ all \in BOOLEAN
    /\ udepth \in UserDepths
    /\ Started
    /\ gs = Idle
    /\ bb = IdleBytes

Next == Main \/ VisitFile \/ VisitDir \/ MetadataFail \/ NamePanic \/ ReturnOk

Spec == Init /\ [][Next]_vars

(***************************************************************************)
(* The formatters on their own: one evaluation on an input drawn from a    *)
(* bounded set.  get_symbol is called with a position of a non-empty Vec   *)
(* (line 105), beautify_bytes with a metadata length (line 114).           *)
(***************************************************************************)
NoWalk ==
    /\ fs = File(<<"r">>, 1)
    /\ all = FALSE
    /\ udepth = DEFAULT_DEPTH
    /\ Started

SymbolInit ==
    /\ NoWalk
    /\ bb = IdleBytes
    /\ gs \in { [i |-> i, length |-> n, indent |-> d, done |-> FALSE, sym |-> ""] :
                   n \in 1..MaxLength, i \in 0..(MaxLength - 1), d \in 0..MaxIndent }
    /\ gs.i < gs.length

GetSymbol ==
    /\ ~ gs.done
    /\ gs' = [gs EXCEPT !.done = TRUE, !.sym = get_symbol(gs.i, gs.length, gs.indent)]
    /\ UNCHANGED <<walk, bb>>

SpecSymbol == SymbolInit /\ [][GetSymbol]_vars

Near(t) == { b \in (t - Window)..(t + Window) : b >= 0 }

\* the thresholds, a tie of the rounding (1152 / 1024 = 1.125), and 2 GB
Landmarks == { 0, BYTES_IN_KB, BYTES_IN_KB + 128, BYTES_IN_MB, BYTES_IN_GB,
               2 * (BYTES_IN_GB - Window) }

BytesInit ==
    /\ NoWalk
    /\ gs = Idle
    /\ bb \in { [bytes |-> b, done |-> FALSE, str |-> ""] :
                   b \in UNION { Near(t) : t \in Landmarks } }

BeautifyBytes ==
    /\ ~ bb.done
    /\ bb' = [bb EXCEPT !.done = TRUE, !.str = beautify_bytes(bb.bytes)]
    /\ UNCHANGED <<walk, gs>>

SpecBytes == BytesInit /\ [][BeautifyBytes]_vars

(***************************************************************************)
(* Properties of the formatters.                                           *)
(***************************************************************************)
\* the glyph the ordered rules give: only sibling, else first, else last
RuleGlyph(i, n, d) ==
    IF n = 1 THEN (IF d = 0 THEN FLAT ELSE CLOSE_CORNER)
    ELSE IF i = 0 THEN (IF d = 0 THEN OPEN_CORNER ELSE TEE)
    ELSE IF i = n - 1 THEN CLOSE_CORNER
    ELSE TEE

\* C7: for every sibling count n >= 1, position 0 <= i < n and indent d,
\* get_symbol(i, n, d) is the glyph of the ordered rules (only sibling: flat
\* at indent 0, closing corner otherwise; first: opening corner at indent 0,
\* T-junction otherwise; last: closing corner; else T-junction), and the
\* last of n > 1 siblings gets the closing corner whatever the indent.
GlyphFollowsRules ==
    gs.done =>
        /\ gs.sym = RuleGlyph(gs.i, gs.length, gs.indent)
        /\ (gs.length > 1 /\ gs.i = gs.length - 1) => gs.sym = CLOSE_CORNER

GlyphLastOfManyAtRoot ==
    /\ gs.done
    /\ gs.length > 2
    /\ gs.i = gs.length - 1
    /\ gs.indent = 0
    /\ gs.sym = CLOSE_CORNER

\* the strings "<w>.<t><u><unit>" whose whole part w is the quotient of
\* bytes by the unit, or one more (when the rounding carries)
TwoDecimals(bytes, unit, suffix) ==
    { Dec(w) \o "." \o Digit(t) \o Digit(u) \o suffix :
        w \in { bytes \div unit, (bytes \div unit) + 1 }, t \in 0..9, u \in 0..9 }

\* C8: the unit of beautify_bytes(b) is decided by the thresholds alone:
\* below 1024 the integer count and "B"; below 1048576 kilobytes with two
\* decimals and "KB"; below 1073741824 megabytes with two decimals and "MB";
\* otherwise gigabytes with two decimals and "GB"; and 0, 1023, 1024, 1048576
\* and 1073741824 render as "0B", "1023B", "1.00KB", "1.00MB" and "1.00GB".
UnitFollowsThresholds ==
    bb.done =>
        /\ bb.bytes < 1024 => bb.str = Dec(bb.bytes) \o "B"
        /\ (1024 <= bb.bytes /\ bb.bytes < 1048576)
              => bb.str \in TwoDecimals(bb.bytes, 1024, "KB")
        /\ (1048576 <= bb.bytes /\ bb.bytes < 1073741824)
              => bb.str \in TwoDecimals(bb.bytes, 1048576, "MB")
        /\ 1073741824 <= bb.bytes
              => bb.str \in TwoDecimals(bb.bytes, 1073741824, "GB")
        /\ bb.bytes = 0 => bb.str = "0B"
        /\ bb.bytes = 1023 => bb.str = "1023B"
        /\ bb.bytes = 1024 => bb.str = "1.00KB"
        /\ bb.bytes = 1048576 => bb.str = "1.00MB"
        /\ bb.bytes = 1073741824 => bb.str = "1.00GB"

BytesAtGigabyte ==
    /\ bb.done
    /\ bb.bytes = 1073741824
    /\ bb.str = "1.00GB"

(***************************************************************************)
(* Vocabulary for the properties of the walk.                              *)
(***************************************************************************)
Front(path) == SubSeq(path, 1, Len(path) - 1)
IsPrefix(p, q) == Len(p) <= Len(q) /\ SubSeq(q, 1, Len(p)) = p

\* the entry a path of names leads to, from the entry e (the path is
\* resolved by halves, the first half to a value before the second is
\* looked at, which keeps the evaluation shallow on long paths)
RECURSIVE EntryAt(_, _)
EntryAt(e, path) ==
    IF path = <<>> THEN e
    ELSE IF Len(path) = 1
    THEN LET l == RawListing(e)
         IN  l[CHOOSE k \in 1..Len(l) : l[k].name = path[1]]
    ELSE LET h == Len(path) \div 2
         IN  CHOOSE x \in { EntryAt(m, SubSeq(path, h + 1, Len(path))) :
                              m \in { EntryAt(e, SubSeq(path, 1, h)) } } : TRUE

\* what read_dir yields for the directory a path leads to
ListingAt(path) == RawListing(EntryAt(fs, path))

IsEntryLine(l) == l.kind \in {"dir", "file"}
Rendered(path) == \E k \in 1..Len(out) : IsEntryLine(out[k]) /\ out[k].path = path
LineOf(path) == CHOOSE k \in 1..Len(out) : IsEntryLine(out[k]) /\ out[k].path = path
Hidden(name) == name # <<>> /\ name[1] = "."
RanLoop(c) == c.at \in {"metadata", "end"}

\* the sum of the sizes shown on the file lines out[a..b]
RECURSIVE FileSum(_, _)
FileSum(a, b) ==
    IF a > b THEN 0
    ELSE IF a = b THEN (IF out[a].kind = "file" THEN out[a].bytes ELSE 0)
    ELSE FileSum(a, (a + b) \div 2) + FileSum(((a + b) \div 2) + 1, b)

(***************************************************************************)
(* C1: the value a successful lsr call returns is the sum of the sizes of  *)
(* the regular files rendered within its subtree, directories contributing *)
(* only through the files they contain.                                    *)
(***************************************************************************)
ReturnIsRenderedFileSum ==
    \A c \in 1..Len(calls) :
        calls[c].tag = "Ok" =>
            calls[c].value = FileSum(calls[c].outStart + 1, calls[c].outEnd)

RECURSIVE FaultFree(_)
FaultFree(e) ==
    /\ e.enumOk /\ e.metaOk /\ e.utf8 /\ ~ e.link
    /\ e.isDir => /\ e.readOk
                  /\ \A k \in 1..Len(e.sub) : FaultFree(e.sub[k])

\* the directories that have been listed or rendered: the root and every
\* directory with a line
ShownDirectories ==
    { <<>> } \cup { out[k].path : k \in { j \in 1..Len(out) : out[j].kind = "dir" } }

UnlimitedDepthRendersWholeTree ==
    (pc = "exit" /\ udepth < 0 /\ FaultFree(fs))
        => \A p \in ShownDirectories :
              LET l == ListingAt(p)
              IN  \A k \in 1..Len(l) :
                    (all \/ ~ Hidden(l[k].name)) => Rendered(Append(p, l[k].name))

(***************************************************************************)
(* C3: whenever the recursive call for a directory entry returns an error, *)
(* for whatever reason, the caller prints exactly one error line, one      *)
(* indent level deeper than the entry's own line and right after the       *)
(* output of that subtree, and goes on with the entry's siblings: every    *)
(* sibling its loop reaches after that is rendered, and if the caller      *)
(* itself returns an error, that is the failed lookup of another entry.    *)
(* A root holding one unreadable directory and two readable files prints   *)
(* both file lines and the error line, and exits with success (the         *)
(* instance of the above where the recursive call is one that reads the    *)
(* directory: with cli.depth = 0 that call stops before reading and        *)
(* returns Ok).                                                            *)
(***************************************************************************)
\* the position of the entry named n in the Vec collected for a directory
IndexIn(dir, n) == CHOOSE m \in 1..Len(dir) : dir[m].name = n

IsPlainFile(e) ==
    e.enumOk /\ e.metaOk /\ e.utf8 /\ ~ e.isDir /\ ~ Hidden(e.name)

OneUnreadableTwoFiles ==
    /\ fs.isDir /\ fs.readOk /\ ~ fs.link /\ fs.nest = 0
    /\ Len(fs.sub) = 3
    /\ Cardinality({ k \in 1..3 : IsPlainFile(fs.sub[k]) }) = 2
    /\ Cardinality({ k \in 1..3 : fs.sub[k].enumOk /\ fs.sub[k].metaOk /\ fs.sub[k].utf8
                                  /\ fs.sub[k].isDir /\ ~ fs.sub[k].readOk
                                  /\ ~ Hidden(fs.sub[k].name) }) = 1

Width == MaxPre + MaxPost + 2

RECURSIVE Power(_, _)
Power(b, n) == IF n = 0 THEN 1 ELSE b * Power(b, n - 1)

RECURSIVE WorkBound(_)
WorkBound(k) ==
    IF k < 0 THEN 1 + Width ELSE 3 * Power(Width, k + 2) + WorkBound(k - 1)

DepthIsBounded ==
    udepth >= 0 =>
        /\ \A k \in 1..Len(out) : out[k].indent <= udepth
        /\ Len(stack) <= udepth + 1
        /\ \A k \in 1..Len(stack) :
              /\ stack[k].indent = k - 1
              /\ stack[k].depth = udepth - stack[k].indent
              /\ stack[k].depth >= 0
        /\ \A c \in 1..Len(calls) :
              /\ calls[c].depth = -1 =>
                    /\ calls[c].at = "stop"
                    /\ calls[c].tag = "Ok" /\ calls[c].value = 0
                    /\ calls[c].outStart = calls[c].outEnd
                    /\ calls[c].indent = udepth + 1
              /\ calls[c].at # "stop" =>
                    /\ calls[c].depth >= 0
                    /\ calls[c].indent <= udepth
        /\ Len(out) + Len(calls) <= WorkBound(udepth)
        /\ pc = "exit" \/ ENABLED Next

CycleCutAtDepthOne ==
    /\ pc = "exit"
    /\ udepth = 1
    /\ \E k \in 1..Len(fs.sub) : fs.sub[k].link
    /\ \E k \in 1..Len(out) : out[k].indent = 1 /\ out[k].kind = "dir"
    /\ \E c \in 1..Len(calls) : calls[c].at = "stop" /\ calls[c].indent = 2

(***************************************************************************)
(* C6: at every level of the recursion: without cli.all no rendered entry  *)
(* has a name beginning with '.', a hidden directory is neither rendered   *)
(* nor entered, and the glyph of each line is chosen from the position and *)
(* count among the non-hidden siblings only; with cli.all every            *)
(* successfully enumerated entry the loop of a call reaches is rendered,   *)
(* hidden or not, and a call that returns Ok has rendered all of them.     *)
(***************************************************************************)
Visible(e) == e.enumOk /\ ~ (e.utf8 /\ Hidden(e.name))
NoHiddenPart(path) == \A k \in 1..Len(path) : ~ Hidden(path[k])

LevelLines(a, b, indent) ==
    { k \in a..b : IsEntryLine(out[k]) /\ out[k].indent = indent }

\* the entry lines of one level within out[a..b] are those of the first n
\* entries of dir, below the directory at path, in that order
LevelIsPrefix(a, b, indent, path, dir, n) ==
    /\ Cardinality(LevelLines(a, b, indent)) = n
    /\ \A m \in 1..n :
          /\ Rendered(Append(path, dir[m].name))
          /\ LineOf(Append(path, dir[m].name)) \in LevelLines(a, b, indent)
          /\ m > 1 => LineOf(Append(path, dir[m - 1].name))
                         < LineOf(Append(path, dir[m].name))

MetadataFailureAbortsOneLevel ==
    pc = "exit" =>
        \A c \in 1..Len(calls) :
            RanLoop(calls[c]) =>
              LET r   == calls[c]
                  dir == Collect(ListingAt(r.path))
                  bad == { m \in 1..Len(dir) : ~ dir[m].metaOk }
              IN  /\ bad # {} =>
                        /\ r.tag = "Err"
                        /\ r.at = "metadata"
                        /\ \A m \in bad : r.i + 1 <= m
                  /\ r.at = "metadata" =>
                        /\ r.tag = "Err"
                        /\ r.i + 1 \in bad
                        /\ LevelIsPrefix(r.outStart + 1, r.outEnd, r.indent,
                                         r.path, dir, r.i)
                        /\ \A m \in (r.i + 1)..Len(dir) :
                              ~ Rendered(Append(r.path, dir[m].name))
                        /\ r.indent > 0 =>
                              /\ r.outEnd < Len(out)
                              /\ out[r.outEnd + 1].kind = "err"
                              /\ out[r.outEnd + 1].path = r.path
                              /\ out[r.outEnd + 1].name = r.msg
                              /\ \A d \in 1..Len(calls) :
                                    (calls[d].path = Front(r.path)
                                       /\ RanLoop(calls[d]) /\ calls[d].tag = "Err")
                                    => LET up == Collect(ListingAt(calls[d].path))
                                       IN  /\ ~ up[calls[d].i + 1].metaOk
                                           /\ up[calls[d].i + 1].name
                                                # r.path[Len(r.path)]
                        /\ r.indent = 0 =>
                              /\ exitCode = "FAILURE"
                              /\ errout = << r.msg >>

LookupFailsBetweenSiblingsOfSubdirectory ==
    /\ pc = "exit"
    /\ exitCode = "SUCCESS"
    /\ \E c \in 1..Len(calls) :
          /\ calls[c].at = "metadata"
          /\ calls[c].indent = 1
          /\ calls[c].i >= 1
          /\ calls[c].i + 1 < Len(Collect(ListingAt(calls[c].path)))
          /\ out[calls[c].outEnd + 1].kind = "err"
          /\ calls[c].outEnd + 1 < Len(out)

(***************************************************************************)
(* C10: the output is a depth-first pre-order listing in the order of      *)
(* enumeration: an entry is rendered at most once; the line of a directory *)
(* comes before every line of its subtree, and the lines of its subtree    *)
(* (its error line included) come in one block right after it, before the  *)
(* line of its next sibling; siblings appear in the order read_dir yields  *)
(* them; the lines of the direct children of a directory are one indent    *)
(* level deeper than its own line; and depth + indent is the same in all   *)
(* nested calls of one traversal.                                          *)
(***************************************************************************)
\* the line belongs to the subtree of the directory rendered with path p
Under(l, p) ==
    IF l.kind = "err" THEN IsPrefix(p, l.path)
    ELSE Len(l.path) > Len(p) /\ IsPrefix(p, l.path)

PositionOf(path) ==
    LET l == ListingAt(Front(path))
    IN  CHOOSE m \in 1..Len(l) : l[m].name = path[Len(path)]

OutputIsPreOrder ==
    /\ \A k \in 1..Len(stack) :
          stack[k].depth + stack[k].indent = InitialDepth(udepth)
    /\ pc = "exit" =>
        /\ \A c \in 1..Len(calls) :
              calls[c].depth + calls[c].indent = InitialDepth(udepth)
        /\ \A a \in 1..Len(out) :
              /\ IsEntryLine(out[a]) => out[a].indent = Len(out[a].path) - 1
              /\ out[a].kind = "err" =>
                    /\ out[a].indent = Len(out[a].path)
                    /\ Rendered(out[a].path)
                    /\ out[LineOf(out[a].path)].kind = "dir"
                    /\ out[a].indent = out[LineOf(out[a].path)].indent + 1
        /\ \A a \in 1..Len(out) : \A b \in 1..Len(out) :
              /\ (a < b /\ IsEntryLine(out[a]) /\ IsEntryLine(out[b]))
                    => out[a].path # out[b].path
              /\ (out[a].kind = "dir" /\ Under(out[b], out[a].path))
                    => /\ a < b
                       /\ b = a + 1 \/ Under(out[b - 1], out[a].path)
              /\ (out[a].kind = "file" /\ IsEntryLine(out[b]))
                    => ~ Under(out[b], out[a].path)
              /\ (a < b /\ IsEntryLine(out[a]) /\ IsEntryLine(out[b])
                    /\ Front(out[a].path) = Front(out[b].path))
                    => PositionOf(out[a].path) < PositionOf(out[b].path)

SubtreeBeforeNextSibling ==
    /\ pc = "exit"
    /\ Len(out) >= 4
    /\ out[1].kind = "dir" /\ out[1].indent = 0
    /\ out[2].kind = "file" /\ out[2].indent = 1
    /\ out[3].kind = "err" /\ out[3].indent = 1
    /\ out[4].kind = "file" /\ out[4].indent = 0

=============================================================================
